---- MODULE Spec2Model ----
(***************************************************************************)
(* Window management of static/js/index.js: the shared z-index counter,    *)
(* the per-window drag closures, open/close, the fullscreen observer and   *)
(* the blog wheel routing, as a state machine over the DOM state the       *)
(* script reads and writes.                                                *)
(*                                                                         *)
(* One action is one task of the event loop (a DOM event with every        *)
(* listener it reaches, an animation frame, a MutationObserver delivery)   *)
(* or one call of the embedding page into the DOM the script observes.     *)
(* Pixel quantities are integers.                                          *)
(***************************************************************************)
EXTENDS Integers, Sequences, FiniteSets, TLC

\* ------------------------------------------------------------- bounds

\* The counter is capped: an action that would raise it more than MaxRaises past
\* its value after load is disabled (two more on a page with a single window).
MaxRaises == 2
\* Pointer positions of mouse events are the points (i, 2i), i in 0..MaxCoord.
MaxCoord == 1
\* Class changes the page makes in one task, before the observer's microtask runs.
MaxBatch == 2
\* The content pane scrolls within 0..MaxScroll (its scrollHeight - clientHeight),
\* the page within 0..MaxPageScroll; wheel deltas are -MaxDelta..MaxDelta, not 0.
MaxScroll == 3
MaxPageScroll == 2
MaxDelta == 2
\* Layout of a CSS-centered window: the 50% anchor and half the window's size.
AnchorLeft == 4
AnchorTop == 5
HalfWidth == 2
HalfHeight == 1

\* ------------------------------------------------------------- values

\* The elements with class intro-div the page may hold.
AllWindows == {"welcome", "blog", "tutorial"}
\* Document order of the windows (querySelectorAll order).
DocOrder == <<"welcome", "blog", "tutorial">>
\* Names wired by id convention.
KnownNames == {"welcome", "blog"}

\* A CSS text value: n and a unit, "" the empty string, "px" as in n + "px".
Txt(u, n) == [u |-> u, n |-> n]
Empty == Txt("", 0)
Px(n) == Txt("px", n)

\* parseFloat: the leading number of the text, NaN when there is none.
NaN == [nan |-> TRUE, v |-> 0]
Num(n) == [nan |-> FALSE, v |-> n]
ParseFloat(t) == IF t.u \in {"px", "rem"} THEN Num(t.n) ELSE NaN

\* a || b on texts
OrElse(a, b) == IF a # Empty THEN a ELSE b

Max(a, b) == IF a >= b THEN a ELSE b

\* The inline style of an element: the properties the script touches.
NoStyle ==
  [top |-> Empty, left |-> Empty, right |-> Empty, bottom |-> Empty,
   position |-> "", transform |-> "", width |-> Empty, height |-> Empty,
   display |-> ""]

\* dataset.prevGeomSaved and the eight dataset.prev* entries; absent entries read as "".
NoSnapshot ==
  [saved |-> FALSE, top |-> Empty, left |-> Empty, right |-> Empty, bottom |-> Empty,
   position |-> "", transform |-> "", width |-> Empty, height |-> Empty]

\* The style variables the fullscreen adapter reads from the root element.
VarNames ==
  {"--window-top-offset", "--blog-window-top-offset", "--tutorial-window-top-offset",
   "--window-side-margin", "--blog-window-side-margin", "--tutorial-window-side-margin",
   "--window-bottom-margin", "--blog-window-bottom-margin", "--tutorial-window-bottom-margin"}

NoVars == [v \in VarNames |-> Empty]

\* A page the script is loaded into: its markup, stylesheet and viewport.
\*   wins      the intro-div elements present
\*   headers   the windows with a <id>header element
\*   openEl, closeEl   the names with a <name>open / <name>close element
\*   visible   the windows isVisible() finds visible at load
\*   inline    the inline style each window's markup carries
\*   fs, min   the windows whose markup carries window-fullscreen / window-minimized
\*   vars      getPropertyValue of each style variable
\*   vw, vh    window.innerWidth / innerHeight
\*   scroll    window.scrollX / scrollY at load
\*   content, list   whether #blogContent / #blogList exist
PlacedStyle == [NoStyle EXCEPT !.top = Px(40), !.left = Px(10), !.display = "none"]
BoxedStyle ==
  [NoStyle EXCEPT !.right = Px(7), !.bottom = Px(8), !.position = "absolute",
                  !.transform = "none", !.width = Px(300), !.height = Px(200)]

\* Two windows: welcome is shown, CSS-centered and has no header; blog is hidden
\* by an inline display: none and carries an inline top and left.
PageDesk ==
  [wins |-> {"welcome", "blog"}, headers |-> {"blog"},
   openEl |-> {"welcome", "blog"}, closeEl |-> {"welcome", "blog"},
   visible |-> {"welcome"},
   inline |-> [w \in AllWindows |-> IF w = "blog" THEN PlacedStyle ELSE NoStyle],
   fs |-> {}, min |-> {},
   vars |-> NoVars, vw |-> 1000, vh |-> 700,
   scroll |-> [x |-> 0, y |-> 1],
   content |-> TRUE, list |-> TRUE]

\* One window, blog, fullscreen at load, with inline right, bottom, position,
\* transform, width and height, style variables set and a small viewport.
PageSolo ==
  [wins |-> {"blog"}, headers |-> {"blog"},
   openEl |-> {"blog"}, closeEl |-> {"blog"},
   visible |-> {"blog"},
   inline |-> [w \in AllWindows |-> IF w = "blog" THEN BoxedStyle ELSE NoStyle],
   fs |-> {"blog"}, min |-> {},
   vars |-> [NoVars EXCEPT !["--window-top-offset"] = Px(48),
                           !["--blog-window-side-margin"] = Px(24),
                           !["--window-bottom-margin"] = Txt(" ", 0)],
   vw |-> 300, vh |-> 200,
   scroll |-> [x |-> 2, y |-> 0],
   content |-> TRUE, list |-> FALSE]

Pages == {PageDesk, PageSolo}

\* null, as an argument
Null == "null"

\* ------------------------------------------------------------- state

VARIABLES
  env,          \* the page (never changes)
  zLimit,       \* the cap of the counter on this page (never changes)
  zCounter,     \* window._zCounter
  zIndex,       \* el.style.zIndex of each window as a number, 0 when unset
  style,        \* the inline style of each window
  minimized,    \* classList.contains("window-minimized")
  fullscreen,   \* classList.contains("window-fullscreen")
  snapshot,     \* dataset.prevGeomSaved and dataset.prev* of each window
  flags,        \* dataset.draggableWired / windowWired of each window,
                \* dataset.openWired / closeWired of its triggers
  listeners,    \* listeners attached: winDown (the window's raise listener),
                \* handleDown (onMouseDown on the handle), openClick, closeClick
  drag,         \* startX, startY, initialMouseX, initialMouseY of each closure
  docMove,      \* windows whose onMouseMove is a mousemove listener of document
  docUp,        \* windows whose onMouseUp is a mouseup listener of document
  rafQueue,     \* windows with a requested animation frame callback of open
  focused,      \* whether #blogContent was given the focus
  contentScroll,\* blogContent.scrollTop
  pageScroll,   \* window.scrollX / scrollY
  wheel,        \* the last wheel event after its dispatch
  last          \* history: the last operation and its window, when it is a
                \* secondary-button press on a handle ("auxdown"), a repeated
                \* wiring call ("rewire") or an open of a closed, minimized
                \* window ("openmin"); Other after any other operation

dom == <<zCounter, zIndex, style, minimized, fullscreen, snapshot, flags, listeners,
         drag, docMove, docUp, rafQueue, focused>>
vars == <<env, zLimit, dom, contentScroll, pageScroll, wheel, last>>

\* The DOM state the handlers read and write, as one record. queue holds the
\* mutation records (their targets) of the running task, which the observer's
\* microtask takes before the next task starts: it is empty between tasks.
Cur ==
  [z |-> zCounter, zIndex |-> zIndex, style |-> style, minimized |-> minimized,
   fullscreen |-> fullscreen, snapshot |-> snapshot, flags |-> flags,
   listeners |-> listeners, drag |-> drag, docMove |-> docMove, docUp |-> docUp,
   queue |-> <<>>, raf |-> rafQueue, focused |-> focused]

Becomes(d) ==
  /\ zCounter' = d.z
  /\ zIndex' = d.zIndex
  /\ style' = d.style
  /\ minimized' = d.minimized
  /\ fullscreen' = d.fullscreen
  /\ snapshot' = d.snapshot
  /\ flags' = d.flags
  /\ listeners' = d.listeners
  /\ drag' = d.drag
  /\ docMove' = d.docMove
  /\ docUp' = d.docUp
  /\ rafQueue' = d.raf
  /\ focused' = d.focused

NoFlags == [draggableWired |-> FALSE, windowWired |-> FALSE,
            openWired |-> FALSE, closeWired |-> FALSE]
NoListeners == [winDown |-> 0, handleDown |-> 0, openClick |-> 0, closeClick |-> 0]
NoDrag == [startX |-> 0, startY |-> 0, initialMouseX |-> 0, initialMouseY |-> 0]

\* The state of a page before the script runs.
Blank(page) ==
  [z |-> 0,
   zIndex |-> [w \in AllWindows |-> 0],
   style |-> [w \in AllWindows |-> IF w \in page.wins THEN page.inline[w] ELSE NoStyle],
   minimized |-> [w \in AllWindows |-> w \in page.wins /\ w \in page.min],
   fullscreen |-> [w \in AllWindows |-> w \in page.wins /\ w \in page.fs],
   snapshot |-> [w \in AllWindows |-> NoSnapshot],
   flags |-> [w \in AllWindows |-> NoFlags],
   listeners |-> [w \in AllWindows |-> NoListeners],
   drag |-> [w \in AllWindows |-> NoDrag],
   docMove |-> {}, docUp |-> {},
   queue |-> <<>>, raf |-> {}, focused |-> FALSE]

\* $("#" + id): the window, or null
Query(id) == IF id \in env.wins THEN id ELSE Null

\* ------------------------------------------------------------- stacking

ZStart == 10

BringToFrontNoIncrement(d, el) ==
  IF el = Null THEN d ELSE [d EXCEPT !.zIndex[el] = d.z]

BringToFrontUnguarded(d, el) == [d EXCEPT !.z = @ + 1, !.zIndex[el] = d.z + 1]

BringToFront(d, el) ==
  IF el = Null THEN d
  ELSE [d EXCEPT !.z = d.z + 1, !.zIndex[el] = d.z + 1]

\* seq.forEach(function (x) { d = Op(d, x) })
RECURSIVE ForEach(_, _, _)
ForEach(Op(_, _), d, seq) ==
  IF seq = <<>> THEN d ELSE ForEach(Op, Op(d, Head(seq)), Tail(seq))

\* The members of a set of windows in document order.
InDocOrder(S) == SelectSeq(DocOrder, LAMBDA w : w \in S)

\* ------------------------------------------------------------- layout

\* el.offsetLeft / offsetTop: the layout position, which ignores transforms. An
\* inline left or top in px places the window there; without one the stylesheet
\* places it at its 50% anchor.
OffsetLeft(s) == IF s.left.u = "px" THEN s.left.n ELSE AnchorLeft
OffsetTop(s) == IF s.top.u = "px" THEN s.top.n ELSE AnchorTop

\* The stylesheet's translate(-50%, -50%) applies unless an inline transform replaces it.
ShiftX(s) == IF s.transform = "" THEN HalfWidth ELSE 0
ShiftY(s) == IF s.transform = "" THEN HalfHeight ELSE 0

\* The window's rendered position in the document.
RenderedLeft(s) == OffsetLeft(s) - ShiftX(s)
RenderedTop(s) == OffsetTop(s) - ShiftY(s)

\* el.getBoundingClientRect(): the rendered position in the viewport.
RectLeft(s) == RenderedLeft(s) - pageScroll.x
RectTop(s) == RenderedTop(s) - pageScroll.y

\* ------------------------------------------------------------- drag

\* Lines 74-84: a window with neither inline top nor inline left is given its
\* rendered position as absolute top/left, the transform cleared.
Materialize(s) ==
  IF s.top = Empty /\ s.left = Empty
  THEN [s EXCEPT !.position = "absolute",
                 !.top = Px(RectTop(s) + pageScroll.y),
                 !.left = Px(RectLeft(s) + pageScroll.x),
                 !.transform = "none"]
  ELSE s

OnMouseDownAnyButton(d, winEl, e) ==
  LET d1 == BringToFront(d, winEl)
      s2 == Materialize(d1.style[winEl])
  IN [d1 EXCEPT !.style[winEl] = s2,
                !.drag[winEl] = [startX |-> OffsetLeft(s2), startY |-> OffsetTop(s2),
                                 initialMouseX |-> e.x, initialMouseY |-> e.y],
                !.docMove = @ \cup {winEl},
                !.docUp = @ \cup {winEl}]

OnMouseDownOffsetFirst(d, winEl, e) ==
  IF e.button # 0 THEN d
  ELSE
    LET d1 == BringToFront(d, winEl)
        s1 == d1.style[winEl]
    IN [d1 EXCEPT !.style[winEl] = Materialize(s1),
                  !.drag[winEl] = [startX |-> OffsetLeft(s1), startY |-> OffsetTop(s1),
                                   initialMouseX |-> e.x, initialMouseY |-> e.y],
                  !.docMove = @ \cup {winEl},
                  !.docUp = @ \cup {winEl}]

\* e = [button, x, y]: the button and clientX / clientY.
\* document.addEventListener adds a listener that is already attached only once.
OnMouseDown(d, winEl, e) ==
  IF e.button # 0 THEN d
  ELSE
    LET d1 == BringToFront(d, winEl)
        s2 == Materialize(d1.style[winEl])
    IN [d1 EXCEPT !.style[winEl] = s2,
                  !.drag[winEl] = [startX |-> OffsetLeft(s2), startY |-> OffsetTop(s2),
                                   initialMouseX |-> e.x, initialMouseY |-> e.y],
                  !.docMove = @ \cup {winEl},
                  !.docUp = @ \cup {winEl}]

OnMouseMove(d, winEl, e) ==
  LET g == d.drag[winEl]
      dx == e.x - g.initialMouseX
      dy == e.y - g.initialMouseY
  IN [d EXCEPT !.style[winEl].left = Px(g.startX + dx),
               !.style[winEl].top = Px(g.startY + dy)]

OnMouseUpKeepsUp(d, winEl) ==
  [d EXCEPT !.docMove = @ \ {winEl}]

OnMouseUp(d, winEl) ==
  [d EXCEPT !.docMove = @ \ {winEl}, !.docUp = @ \ {winEl}]

MakeDraggableUnguarded(d, winEl) ==
  IF winEl = Null THEN d
  ELSE [d EXCEPT !.listeners[winEl].handleDown = @ + 1,
                 !.flags[winEl].draggableWired = TRUE]

MakeDraggable(d, winEl) ==
  IF winEl = Null \/ d.flags[winEl].draggableWired THEN d
  ELSE [d EXCEPT !.listeners[winEl].handleDown = @ + 1,
                 !.flags[winEl].draggableWired = TRUE]

\* ------------------------------------------------------------- open / close

\* classList.remove sets the class attribute, which queues a mutation record for
\* the observer of the window; requestAnimationFrame queues the frame callback.
OpenWindow(d, winEl) ==
  IF winEl = Null THEN d
  ELSE
    LET d1 == [d EXCEPT !.minimized[winEl] = FALSE, !.queue = Append(@, winEl)]
        d2 == BringToFront(d1, winEl)
    IN [d2 EXCEPT !.style[winEl].display = "", !.raf = @ \cup {winEl}]

\* The frame callback of openWindow.
FrameCallbackKeepsLeft(d, winEl) ==
  LET s == d.style[winEl]
  IN [d EXCEPT !.style[winEl] =
                 [s EXCEPT !.top = Empty, !.right = Empty, !.bottom = Empty,
                           !.position = "", !.transform = ""],
               !.focused = @ \/ (winEl = "blog" /\ env.content)]

FrameCallback(d, winEl) ==
  LET s == d.style[winEl]
  IN [d EXCEPT !.style[winEl] =
                 [s EXCEPT !.top = Empty, !.left = Empty, !.right = Empty,
                           !.bottom = Empty, !.position = "", !.transform = ""],
               !.focused = @ \/ (winEl = "blog" /\ env.content)]

CloseWindowResets(d, winEl) ==
  IF winEl = Null THEN d
  ELSE [d EXCEPT !.style[winEl] = [NoStyle EXCEPT !.display = "none"]]

CloseWindow(d, winEl) ==
  IF winEl = Null THEN d
  ELSE [d EXCEPT !.style[winEl].display = "none"]

\* ------------------------------------------------------------- wiring

WireWindowUnguarded(d, winEl) ==
  IF winEl = Null THEN d
  ELSE
    LET d1 == [d EXCEPT !.listeners[winEl].winDown = @ + 1]
        d2 == MakeDraggable(d1, winEl)
    IN [d2 EXCEPT !.flags[winEl].windowWired = TRUE]

WireWindow(d, winEl) ==
  IF winEl = Null \/ d.flags[winEl].windowWired THEN d
  ELSE
    LET d1 == [d EXCEPT !.listeners[winEl].winDown = @ + 1]
        d2 == MakeDraggable(d1, winEl)
    IN [d2 EXCEPT !.flags[winEl].windowWired = TRUE]

WireOpenClose(d, name) ==
  LET winEl == Query(name)
  IN IF winEl = Null THEN d
     ELSE
       LET d1 == WireWindow(d, winEl)
           d2 == IF name \in env.openEl /\ ~d1.flags[name].openWired
                 THEN [d1 EXCEPT !.listeners[name].openClick = @ + 1,
                                 !.flags[name].openWired = TRUE]
                 ELSE d1
       IN IF name \in env.closeEl /\ ~d2.flags[name].closeWired
          THEN [d2 EXCEPT !.listeners[name].closeClick = @ + 1,
                          !.flags[name].closeWired = TRUE]
          ELSE d2

\* ------------------------------------------------------------- fullscreen

DefaultTop == 100
DefaultMargin == 16
MinWidth == 260
MinHeight == 160

\* root.getPropertyValue(name).trim()
Trim(t) == IF t.u = " " THEN Empty ELSE t
GetVar(name) == Trim(env.vars[name])

TopOffsetVarGlobalFirst(id) ==
  IF id \in {"blog", "tutorial"}
  THEN OrElse(GetVar("--window-top-offset"),
              OrElse(GetVar("--" \o id \o "-window-top-offset"), Px(DefaultTop)))
  ELSE OrElse(GetVar("--window-top-offset"), Px(DefaultTop))

TopOffsetVar(id) ==
  IF id = "blog"
  THEN OrElse(GetVar("--blog-window-top-offset"),
              OrElse(GetVar("--window-top-offset"), Px(DefaultTop)))
  ELSE IF id = "tutorial"
  THEN OrElse(GetVar("--tutorial-window-top-offset"),
              OrElse(GetVar("--window-top-offset"), Px(DefaultTop)))
  ELSE OrElse(GetVar("--window-top-offset"), Px(DefaultTop))

SideMarginVar(id) ==
  IF id = "blog"
  THEN OrElse(GetVar("--blog-window-side-margin"),
              OrElse(GetVar("--window-side-margin"), Px(DefaultMargin)))
  ELSE IF id = "tutorial"
  THEN OrElse(GetVar("--tutorial-window-side-margin"),
              OrElse(GetVar("--window-side-margin"), Px(DefaultMargin)))
  ELSE OrElse(GetVar("--window-side-margin"), Px(DefaultMargin))

BottomMarginVar(id) ==
  IF id = "blog"
  THEN OrElse(GetVar("--blog-window-bottom-margin"),
              OrElse(GetVar("--window-bottom-margin"), Px(DefaultMargin)))
  ELSE IF id = "tutorial"
  THEN OrElse(GetVar("--tutorial-window-bottom-margin"),
              OrElse(GetVar("--window-bottom-margin"), Px(DefaultMargin)))
  ELSE OrElse(GetVar("--window-bottom-margin"), Px(DefaultMargin))

\* parseFloat(v), 0 when it is NaN
PxOrZero(t) == IF ParseFloat(t).nan THEN 0 ELSE ParseFloat(t).v

InitWNoFloor(id) == env.vw - (PxOrZero(SideMarginVar(id)) * 2)

InitW(id) == Max(MinWidth, env.vw - (PxOrZero(SideMarginVar(id)) * 2))
InitH(id) ==
  Max(MinHeight, env.vh - (PxOrZero(TopOffsetVar(id)) + PxOrZero(BottomMarginVar(id))))

\* Lines 214-224: the inline geometry as saved in the dataset.
Saved(s) ==
  [saved |-> TRUE, top |-> s.top, left |-> s.left, right |-> s.right,
   bottom |-> s.bottom, position |-> s.position, transform |-> s.transform,
   width |-> s.width, height |-> s.height]

\* Lines 244-262: the fullscreen geometry.
FullscreenStyle(s, id) ==
  [s EXCEPT !.position = "fixed", !.top = TopOffsetVar(id), !.left = SideMarginVar(id),
            !.width = Px(InitW(id)), !.height = Px(InitH(id)), !.transform = "none"]

\* Lines 266-274: the saved geometry written back.
Restored(s, p) ==
  [s EXCEPT !.top = p.top, !.left = p.left, !.right = p.right, !.bottom = p.bottom,
            !.position = p.position, !.transform = p.transform,
            !.width = p.width, !.height = p.height]

AdjustFullscreenResaves(d, win, on) ==
  IF on
  THEN BringToFront(
         [d EXCEPT !.snapshot[win] = Saved(d.style[win]),
                   !.style[win] = FullscreenStyle(@, win)], win)
  ELSE IF d.snapshot[win].saved
  THEN [d EXCEPT !.style[win] = Restored(@, d.snapshot[win]),
                 !.snapshot[win] = NoSnapshot]
  ELSE d

AdjustFullscreenDropsSize(d, win, on) ==
  IF on
  THEN BringToFront(
         [d EXCEPT !.snapshot[win] = IF @.saved THEN @ ELSE Saved(d.style[win]),
                   !.style[win] = FullscreenStyle(@, win)], win)
  ELSE IF d.snapshot[win].saved
  THEN [d EXCEPT !.style[win] =
                   Restored(@, [d.snapshot[win] EXCEPT !.width = Empty, !.height = Empty]),
                 !.snapshot[win] = NoSnapshot]
  ELSE d

AdjustFullscreenRestoresBlank(d, win, on) ==
  IF on
  THEN BringToFront(
         [d EXCEPT !.snapshot[win] = IF @.saved THEN @ ELSE Saved(d.style[win]),
                   !.style[win] = FullscreenStyle(@, win)], win)
  ELSE [d EXCEPT !.style[win] = Restored(@, d.snapshot[win]),
                 !.snapshot[win] = NoSnapshot]

AdjustFullscreen(d, win, on) ==
  IF on
  THEN BringToFront(
         [d EXCEPT !.snapshot[win] = IF @.saved THEN @ ELSE Saved(d.style[win]),
                   !.style[win] = FullscreenStyle(@, win)], win)
  ELSE IF d.snapshot[win].saved
  THEN [d EXCEPT !.style[win] = Restored(@, d.snapshot[win]),
                 !.snapshot[win] = NoSnapshot]
  ELSE d

\* The observer's callback on one record: the class is read when the callback runs.
OnMutation(d, el) == AdjustFullscreen(d, el, d.fullscreen[el])

\* The observer's callback on the queued records.
Deliver(d) == [ForEach(OnMutation, d, d.queue) EXCEPT !.queue = <<>>]

\* ------------------------------------------------------------- load

\* Lines 46-52: already-visible windows are raised in document order.
InitializeStacking(d, win) == IF win \in env.visible THEN BringToFront(d, win) ELSE d

ObserveWindowNoAdjust(d, w) == d

\* Lines 298-304: a window that is fullscreen at load is adjusted at once.
ObserveWindow(d, w) == IF d.fullscreen[w] THEN AdjustFullscreen(d, w, TRUE) ELSE d

\* The script's run at load, lines 9-337.
Boot ==
  LET wins == InDocOrder(env.wins)
      d0 == [Blank(env) EXCEPT !.z = ZStart]
      d1 == ForEach(InitializeStacking, d0, wins)
      d2 == ForEach(WireWindow, d1, wins)
      d3 == ForEach(WireOpenClose, d2, <<"welcome", "blog">>)
  IN ForEach(ObserveWindow, d3, wins)

\* The counter's cap on the page.
ZLimit == Boot.z + MaxRaises + (IF Cardinality(env.wins) = 1 THEN 2 ELSE 0)
\* The state after load.
Loaded(b) ==
  /\ zCounter = b.z
  /\ zIndex = b.zIndex
  /\ style = b.style
  /\ minimized = b.minimized
  /\ fullscreen = b.fullscreen
  /\ snapshot = b.snapshot
  /\ flags = b.flags
  /\ listeners = b.listeners
  /\ drag = b.drag
  /\ docMove = b.docMove
  /\ docUp = b.docUp
  /\ rafQueue = b.raf
  /\ focused = b.focused

Other == [op |-> "other", w |-> Null]

NoWheel == [target |-> "none", deltaY |-> 0, defaultPrevented |-> FALSE,
            stopped |-> FALSE, atWindow |-> FALSE]

Init ==
  /\ env \in Pages
  /\ zLimit = ZLimit
  /\ Loaded(Boot)
  /\ contentScroll = 0
  /\ pageScroll = env.scroll
  /\ wheel = NoWheel
  /\ last = Other

\* ------------------------------------------------------------- events

\* clientX / clientY of a mouse event
Points == {[x |-> i, y |-> 2 * i] : i \in 0..MaxCoord}
\* MouseEvent.button: 0 primary, 2 secondary
Buttons == {0, 2}

\* n listeners of the same kind run one after the other
Repeat(n, w) == [i \in 1..n |-> w]

\* The window's own mousedown listener, lines 156-158.
RaiseListener(d, winEl) == BringToFront(d, winEl)

\* A mousedown inside window w, on its drag handle or not, with every listener it
\* reaches: the handle's onMouseDown and the window's raise listener. In a window
\* with a header the event bubbles from the header to the window; without one both
\* listeners sit on the window, the raise listener registered first.
DispatchMouseDown(d, w, onHandle, e) ==
  LET down(dd, x) == OnMouseDown(dd, x, e)
      raises == Repeat(d.listeners[w].winDown, w)
      downs == Repeat(d.listeners[w].handleDown, w)
  IN IF w \in env.headers
     THEN ForEach(RaiseListener, IF onHandle THEN ForEach(down, d, downs) ELSE d, raises)
     ELSE ForEach(down, ForEach(RaiseListener, d, raises), downs)

\* A window the pointer can press: displayed and not minimized.
Pressable(w) == w \in env.wins /\ style[w].display # "none" /\ ~minimized[w]

\* The unchanged rest
Rest == UNCHANGED <<env, zLimit, contentScroll, pageScroll, wheel>>

MouseDown(w, onHandle, e) ==
  /\ Pressable(w)
  /\ onHandle \/ w \in env.headers
  /\ zCounter < zLimit
  /\ LET d == DispatchMouseDown(Cur, w, onHandle, e)
     IN d.z <= zLimit /\ Becomes(d)
  /\ last' = IF onHandle /\ e.button # 0 THEN [op |-> "auxdown", w |-> w]
             ELSE IF onHandle /\ w \in rafQueue THEN [op |-> "framepress", w |-> w]
             ELSE IF onHandle /\ w \in docMove THEN [op |-> "repress", w |-> w]
             ELSE Other
  /\ Rest

\* A mousemove anywhere: document's mousemove listeners.
MouseMove(e) ==
  /\ docMove # {}
  /\ LET move(dd, x) == OnMouseMove(dd, x, e)
     IN Becomes(ForEach(move, Cur, InDocOrder(docMove)))
  /\ last' = Other
  /\ Rest

\* A mouseup anywhere: document's mouseup listeners.
MouseUp ==
  /\ docUp # {}
  /\ Becomes(ForEach(OnMouseUp, Cur, InDocOrder(docUp)))
  /\ last' = Other
  /\ Rest

\* A click on the open trigger of a window, and the observer's microtask after it.
ClickOpen(name) ==
  /\ name \in env.wins
  /\ listeners[name].openClick > 0
  /\ zCounter < zLimit
  /\ LET d == Deliver(ForEach(OpenWindow, Cur, Repeat(listeners[name].openClick, name)))
     IN d.z <= zLimit /\ Becomes(d)
  /\ last' = IF style[name].display = "none" /\ minimized[name]
             THEN [op |-> "openmin", w |-> name] ELSE Other
  /\ Rest

\* A click on the close trigger of a window.
ClickClose(name) ==
  /\ name \in env.wins
  /\ listeners[name].closeClick > 0
  /\ Becomes(ForEach(CloseWindow, Cur, Repeat(listeners[name].closeClick, name)))
  /\ last' = Other
  /\ Rest

\* An animation frame: the frame callbacks requested since the last one.
AnimationFrame ==
  /\ rafQueue # {}
  /\ Becomes([ForEach(FrameCallback, Cur, InDocOrder(rafQueue)) EXCEPT !.raf = {}])
  /\ last' = Other
  /\ Rest

\* classList.toggle(cls) by the page, on a window the observer observes
ToggleClass(d, c) ==
  IF c.cls = "window-fullscreen"
  THEN [d EXCEPT !.fullscreen[c.w] = ~@, !.queue = Append(@, c.w)]
  ELSE [d EXCEPT !.minimized[c.w] = ~@, !.queue = Append(@, c.w)]

\* The page's class changes of one task: one to MaxBatch toggles of the two
\* classes on one window.
ClassChanges == {"window-fullscreen", "window-minimized"}
Batches ==
  UNION {{[i \in 1..n |-> [w |-> w, cls |-> f[i]]] : f \in [1..n -> ClassChanges]} :
           w \in env.wins, n \in 1..MaxBatch}

\* A task of the page that toggles classes of windows, and the observer's
\* microtask after it.
PageTogglesClasses(batch) ==
  /\ LET d == Deliver(ForEach(ToggleClass, Cur, batch))
     IN d.z <= zLimit /\ Becomes(d)
  /\ last' = Other
  /\ Rest

\* The wiring functions called again after load.
Rewire(fn, name) ==
  /\ \/ fn = "makeDraggable" /\ Becomes(MakeDraggable(Cur, Query(name)))
     \/ fn = "wireWindow" /\ Becomes(WireWindow(Cur, Query(name)))
     \/ fn = "wireOpenClose" /\ Becomes(WireOpenClose(Cur, name))
  /\ last' = [op |-> "rewire", w |-> name]
  /\ Rest

Next ==
  \/ \E w \in env.wins, h \in BOOLEAN, b \in Buttons, p \in Points :
       MouseDown(w, h, [button |-> b, x |-> p.x, y |-> p.y])
  \/ \E p \in Points : MouseMove([button |-> 0, x |-> p.x, y |-> p.y])
  \/ MouseUp
  \/ \E n \in KnownNames : ClickOpen(n)
  \/ \E n \in KnownNames : ClickClose(n)
  \/ AnimationFrame
  \/ \E batch \in Batches : PageTogglesClasses(batch)

Spec == Init /\ [][Next]_vars

\* The pointer and click events with the wiring functions called again at any time.
NextRewired ==
  \/ \E w \in env.wins, h \in BOOLEAN, b \in Buttons, p \in Points :
       MouseDown(w, h, [button |-> b, x |-> p.x, y |-> p.y])
  \/ \E p \in Points : MouseMove([button |-> 0, x |-> p.x, y |-> p.y])
  \/ MouseUp
  \/ \E n \in KnownNames : ClickOpen(n)
  \/ \E n \in KnownNames : ClickClose(n)
  \/ AnimationFrame
  \/ \E fn \in {"makeDraggable", "wireWindow", "wireOpenClose"}, n \in env.wins :
       Rewire(fn, n)

SpecRewired == Init /\ [][NextRewired]_vars

\* ------------------------------------------------------------- wheel

\* A wheel event in dispatch: st = [ev, content, page], the event with its flags,
\* blogContent.scrollTop and window.scrollY.

\* Assigning el.scrollTop: the browser keeps it within the scroll range.
SetScrollTop(v) == IF v < 0 THEN 0 ELSE IF v > MaxScroll THEN MaxScroll ELSE v
SetPageScroll(v) == IF v < 0 THEN 0 ELSE IF v > MaxPageScroll THEN MaxPageScroll ELSE v

OnPaneWheelNoStop(st) == st

\* Lines 331-334: the listener of a pane.
OnPaneWheel(st) == [st EXCEPT !.ev.stopped = TRUE]

OnWindowWheelNoPrevent(st) ==
  IF ~env.content THEN st
  ELSE
    LET withinContent == st.ev.target = "content"
        withinList == env.list /\ st.ev.target = "list"
    IN IF ~withinContent /\ ~withinList
       THEN [st EXCEPT !.ev.stopped = TRUE,
                       !.ev.atWindow = TRUE,
                       !.content = SetScrollTop(st.content + st.ev.deltaY)]
       ELSE [st EXCEPT !.ev.atWindow = TRUE]

\* Lines 315-326: the listener of the blog window.
OnWindowWheel(st) ==
  IF ~env.content THEN [st EXCEPT !.ev.atWindow = TRUE]
  ELSE
    LET withinContent == st.ev.target = "content"
        withinList == env.list /\ st.ev.target = "list"
    IN IF ~withinContent /\ ~withinList
       THEN [st EXCEPT !.ev.defaultPrevented = TRUE,
                       !.ev.stopped = TRUE,
                       !.ev.atWindow = TRUE,
                       !.content = SetScrollTop(st.content + st.ev.deltaY)]
       ELSE [st EXCEPT !.ev.atWindow = TRUE]

\* The event's way up from its target: the pane's listener, then, unless
\* propagation was stopped, the window's.
DispatchWheel(st) ==
  LET atPane == IF st.ev.target \in {"content", "list"} THEN OnPaneWheel(st) ELSE st
  IN IF atPane.ev.stopped THEN atPane ELSE OnWindowWheel(atPane)

\* The default action of a wheel event that no listener prevented: the pane under
\* the pointer scrolls, and the page does when that pane cannot (absorbed says
\* whether the list pane, whose position the script never reads, can).
DefaultAction(st, absorbed) ==
  IF st.ev.defaultPrevented THEN st
  ELSE IF st.ev.target = "content" /\ SetScrollTop(st.content + st.ev.deltaY) # st.content
  THEN [st EXCEPT !.content = SetScrollTop(st.content + st.ev.deltaY)]
  ELSE IF st.ev.target = "list" /\ absorbed
  THEN st
  ELSE [st EXCEPT !.page = SetPageScroll(st.page + st.ev.deltaY)]

Deltas == (-MaxDelta..MaxDelta) \ {0}
WheelTargets == {"content", "list", "chrome"}

\* A wheel event inside the blog window, on the content pane, the list pane or
\* the rest of the window.
Wheel(target, deltaY, absorbed) ==
  /\ "blog" \in env.wins
  /\ target = "content" => env.content
  /\ target = "list" => env.list
  /\ absorbed \/ target = "list"
  /\ LET st0 == [ev |-> [NoWheel EXCEPT !.target = target, !.deltaY = deltaY],
                 content |-> contentScroll, page |-> pageScroll.y]
         st == DefaultAction(DispatchWheel(st0), absorbed)
     IN /\ wheel' = st.ev
        /\ contentScroll' = st.content
        /\ pageScroll' = [pageScroll EXCEPT !.y = st.page]
  /\ UNCHANGED <<env, zLimit, dom, last>>

NextWheel ==
  \E t \in WheelTargets, dy \in Deltas, a \in BOOLEAN : Wheel(t, dy, a)

\* The wheel routing on its own: it shares no state with the window handlers but
\* window.scrollY, which Materialize adds to and RectTop subtracts from it.
SpecWheel == Init /\ [][NextWheel]_vars

\* ------------------------------------------------------------- layout

\* The fullscreen adapter on its own, over stylesheets and viewports: pages of one
\* window whose window-specific and global style variables are each unset, blank,
\* a pixel length, a rem length or a keyword, in a viewport of any size.
Shapes == {"unset", "blank", "px", "rem", "auto"}
Value(shape, n) ==
  CASE shape = "unset" -> Empty
    [] shape = "blank" -> Txt(" ", 0)
    [] shape = "px" -> Px(n)
    [] shape = "rem" -> Txt("rem", n)
    [] shape = "auto" -> Txt("auto", 0)

\* The window-specific variables are those of w, and for a window that has none
\* (welcome) those of blog, which the adapter must not read for it.
LayoutVars(w, specific, global) ==
  LET own == IF w = "welcome" THEN "blog" ELSE w
  IN [v \in VarNames |->
        CASE v = "--" \o own \o "-window-top-offset" -> Value(specific, 48)
          [] v = "--" \o own \o "-window-side-margin" -> Value(specific, 24)
          [] v = "--" \o own \o "-window-bottom-margin" -> Value(specific, 12)
          [] v = "--window-top-offset" -> Value(global, 40)
          [] v = "--window-side-margin" -> Value(global, 20)
          [] v = "--window-bottom-margin" -> Value(global, 10)
          [] OTHER -> Empty]

Viewports == {[vw |-> 0, vh |-> 0], [vw |-> 300, vh |-> 200], [vw |-> 1000, vh |-> 700]}

LayoutPage(w, specific, global, view) ==
  [wins |-> {w}, headers |-> {}, openEl |-> {}, closeEl |-> {},
   visible |-> {w},
   inline |-> [x \in AllWindows |-> NoStyle],
   fs |-> {}, min |-> {},
   vars |-> LayoutVars(w, specific, global), vw |-> view.vw, vh |-> view.vh,
   scroll |-> [x |-> 0, y |-> 0],
   content |-> FALSE, list |-> FALSE]

LayoutPages ==
  {LayoutPage(w, s, g, v) : w \in AllWindows, s \in Shapes, g \in Shapes, v \in Viewports}

InitLayout ==
  /\ env \in LayoutPages
  /\ zLimit = ZLimit
  /\ Loaded(Boot)
  /\ contentScroll = 0
  /\ pageScroll = env.scroll
  /\ wheel = NoWheel
  /\ last = Other

NextLayout == \E batch \in Batches : PageTogglesClasses(batch)

SpecLayout == InitLayout /\ [][NextLayout]_vars

\* ------------------------------------------------------------- missing elements

MissingFns ==
  {"bringToFront", "makeDraggable", "openWindow", "closeWindow", "wireWindow",
   "wireOpenClose"}

\* A function of the script called for an element the page does not hold: the
\* window functions with the null that $("#" + name) gives for a name without a
\* window, wireOpenClose with such a name or with the name of a window whose
\* triggers are both absent.
CallOnMissing(fn, name) ==
  /\ IF fn = "wireOpenClose"
     THEN name \notin env.wins \/ name \notin (env.openEl \cup env.closeEl)
     ELSE name \notin env.wins
  /\ LET el == Query(name)
         d == CASE fn = "bringToFront" -> BringToFront(Cur, el)
                [] fn = "makeDraggable" -> MakeDraggable(Cur, el)
                [] fn = "openWindow" -> Deliver(OpenWindow(Cur, el))
                [] fn = "closeWindow" -> CloseWindow(Cur, el)
                [] fn = "wireWindow" -> WireWindow(Cur, el)
                [] fn = "wireOpenClose" -> WireOpenClose(Cur, name)
     IN Becomes(d)
  /\ last' = [op |-> "missing", w |-> name]
  /\ Rest

\* Pages with absent elements: the two pages above (no tutorial window; on the
\* second no welcome window and no list pane) and pages of one window without
\* triggers, header or panes.
MissingPages ==
  Pages \cup {LayoutPage(w, "unset", "px", [vw |-> 300, vh |-> 200]) : w \in AllWindows}

InitMissing ==
  /\ env \in MissingPages
  /\ zLimit = ZLimit
  /\ Loaded(Boot)
  /\ contentScroll = 0
  /\ pageScroll = env.scroll
  /\ wheel = NoWheel
  /\ last = Other

NextMissing ==
  \/ \E fn \in MissingFns, n \in AllWindows : CallOnMissing(fn, n)
  \/ \E w \in env.wins, b \in Buttons, p \in Points :
       MouseDown(w, TRUE, [button |-> b, x |-> p.x, y |-> p.y])
  \/ MouseUp
  \/ \E n \in KnownNames : ClickOpen(n)
  \/ \E n \in KnownNames : ClickClose(n)
  \/ AnimationFrame
  \/ \E dy \in Deltas : ~env.content /\ Wheel("chrome", dy, TRUE)

SpecMissing == InitMissing /\ [][NextMissing]_vars

\* ------------------------------------------------------------- steps

\* Steps of Next by kind, for the properties below.
PrimaryPress(w) ==
  \E p \in Points : MouseDown(w, TRUE, [button |-> 0, x |-> p.x, y |-> p.y])
SecondaryPress(w) ==
  \E p \in Points : MouseDown(w, TRUE, [button |-> 2, x |-> p.x, y |-> p.y])

\* The eight tracked properties of a style or of a snapshot.
Geom(r) ==
  [top |-> r.top, left |-> r.left, right |-> r.right, bottom |-> r.bottom,
   position |-> r.position, transform |-> r.transform,
   width |-> r.width, height |-> r.height]

\* ------------------------------------------------------------- C1

\* Raised windows have distinct stacking orders, none above the counter.
StackingDistinct ==
  /\ \A w \in AllWindows : zIndex[w] <= zCounter
  /\ \A w, v \in AllWindows : (w # v /\ zIndex[w] # 0) => zIndex[w] # zIndex[v]

\* A step never lowers the counter, and a window whose stacking order it changes
\* gets an order above the counter's old value, so above every order given before.
StackingStep ==
  /\ zCounter' >= zCounter
  /\ \A w \in AllWindows :
       zIndex'[w] # zIndex[w] =>
         /\ zCounter' > zCounter
         /\ zIndex'[w] > zCounter
         /\ \A v \in AllWindows : zIndex'[w] > zIndex[v]

\* C1: with every bringToFront call (window mousedown, drag press, open, fullscreen
\* entry) the counter strictly increases, the window just raised is strictly above
\* every window raised before, and no two raised windows share a stacking order.
C1_StackingStrictlyIncreasing == []StackingDistinct /\ [][StackingStep]_vars

\* Both windows of a page raised, several calls after load, the last raised on top.
C1_Witness ==
  \E w, v \in env.wins :
    /\ zIndex[w] > zIndex[v] /\ zIndex[v] > 0
    /\ zIndex[w] = zCounter
    /\ zCounter >= ZStart + 3

\* ------------------------------------------------------------- C2

\* The adapter enters fullscreen on w in this step: a snapshot appears.
Enters(w) == ~snapshot[w].saved /\ snapshot'[w].saved
\* The adapter exits fullscreen on w in this step: the snapshot is consumed.
Exits(w) == snapshot[w].saved /\ ~snapshot'[w].saved

\* C2: entering fullscreen saves the eight inline properties as they are, and the
\* exit writes the eight saved values back and discards the snapshot, so entry
\* followed by exit leaves the eight properties as they were before entry.
C2_FullscreenRoundTrip ==
  [][\A w \in AllWindows :
       /\ Enters(w) => Geom(snapshot'[w]) = Geom(style[w])
       /\ Exits(w) => /\ Geom(style'[w]) = Geom(snapshot[w])
                      /\ snapshot'[w] = NoSnapshot]_vars

\* The window that was fullscreen at load, with inline right, bottom, position,
\* transform, width and height, after its exit.
C2_Witness ==
  /\ env = PageSolo
  /\ ~fullscreen["blog"] /\ ~snapshot["blog"].saved
  /\ Geom(style["blog"]) = Geom(BoxedStyle)

\* ------------------------------------------------------------- C3

\* C3: a snapshot that exists is never overwritten: while one exists it keeps its
\* values, however often the entry adjustment runs, and the exit restores them.
C3_SnapshotNotOverwritten ==
  [][\A w \in AllWindows :
       /\ (snapshot[w].saved /\ snapshot'[w].saved) => snapshot'[w] = snapshot[w]
       /\ Exits(w) => Geom(style'[w]) = Geom(snapshot[w])]_vars

\* The entry adjustment has run again on a fullscreen window (a further class
\* change, here the minimized class, was delivered while the marker was present,
\* and raised the window a second time) and the snapshot still holds the geometry
\* from before the first entry.
C3_Witness ==
  /\ env = PageSolo
  /\ fullscreen["blog"] /\ minimized["blog"]
  /\ Geom(snapshot["blog"]) = Geom(BoxedStyle)
  /\ Geom(style["blog"]) = Geom(FullscreenStyle(BoxedStyle, "blog"))
  /\ zIndex["blog"] >= ZStart + 3

\* ------------------------------------------------------------- C4

\* Every window carries one raise listener and one onMouseDown, every trigger
\* that exists one click listener.
ListenersOnce ==
  \A w \in env.wins :
    /\ listeners[w].winDown = 1
    /\ listeners[w].handleDown = 1
    /\ listeners[w].openClick = (IF w \in KnownNames \cap env.openEl THEN 1 ELSE 0)
    /\ listeners[w].closeClick = (IF w \in KnownNames \cap env.closeEl THEN 1 ELSE 0)

\* One press runs the window's raise listener and onMouseDown once each, one click
\* on an open trigger runs openWindow once (the observer raises a fullscreen
\* window once more), one click on a close trigger leaves the counter alone.
SingleEffect ==
  \A w \in AllWindows :
    /\ PrimaryPress(w) => zCounter' = zCounter + 2
    /\ ClickOpen(w) => zCounter' = zCounter + (IF fullscreen[w] THEN 2 ELSE 1)
    /\ ClickClose(w) => zCounter' = zCounter

\* C4: wiring is idempotent: after any number of repeated makeDraggable, wireWindow
\* and wireOpenClose calls no listener is attached twice, and a press, an open
\* click and a close click change the counter as after a single wiring call.
C4_WiringIdempotent == []ListenersOnce /\ [][SingleEffect]_vars

\* A wiring function has just been called again on a wired window.
C4_Witness ==
  /\ last.op = "rewire"
  /\ flags[last.w].windowWired /\ flags[last.w].draggableWired
  /\ listeners[last.w].winDown = 1

\* ------------------------------------------------------------- C5

\* A primary press at p on the handle of a window with neither inline top nor left
\* makes its rendered position explicit, clears the transform and starts the
\* session there.
PressMaterializes ==
  \A w \in AllWindows, p \in Points :
    ( /\ MouseDown(w, TRUE, [button |-> 0, x |-> p.x, y |-> p.y])
      /\ style[w].top = Empty /\ style[w].left = Empty )
    => /\ style'[w].left = Px(RenderedLeft(style[w]))
       /\ style'[w].top = Px(RenderedTop(style[w]))
       /\ style'[w].transform = "none"
       /\ drag'[w] = [startX |-> RenderedLeft(style[w]), startY |-> RenderedTop(style[w]),
                      initialMouseX |-> p.x, initialMouseY |-> p.y]

\* A move to p places every dragged window at its offset at press plus the
\* pointer's displacement since the press, and converts nothing again.
MoveFollowsPointer ==
  \A p \in Points :
    MouseMove([button |-> 0, x |-> p.x, y |-> p.y])
    => /\ drag' = drag
       /\ \A w \in docMove :
            /\ style'[w].left = Px(drag[w].startX + (p.x - drag[w].initialMouseX))
            /\ style'[w].top = Px(drag[w].startY + (p.y - drag[w].initialMouseY))
            /\ style'[w].transform = style[w].transform
            /\ style'[w].position = style[w].position

\* C5: dragging a window without inline top/left from (x0,y0) to (x1,y1) leaves it
\* at its pre-drag rendered position plus (x1-x0, y1-y0), transform cleared; the
\* conversion to explicit coordinates happens once, at the press.
C5_DragFromCentered == [][PressMaterializes /\ MoveFollowsPointer]_vars

\* The CSS-centered window, pressed and moved by (1, 2) from its rendered position.
C5_Witness ==
  /\ env = PageDesk
  /\ "welcome" \in docMove
  /\ style["welcome"].left = Px((AnchorLeft - HalfWidth) + 1)
  /\ style["welcome"].top = Px((AnchorTop - HalfHeight) + 2)
  /\ style["welcome"].transform = "none"
  /\ style["welcome"].position = "absolute"

\* ------------------------------------------------------------- C6

SixCleared(s) ==
  /\ s.top = Empty /\ s.left = Empty /\ s.right = Empty /\ s.bottom = Empty
  /\ s.position = "" /\ s.transform = ""

\* C6: open on a closed, minimized window clears the minimized flag, removes the
\* display override and raises the window at once and requests a frame; when the
\* frame callback has run the window has no inline top, left, right, bottom,
\* position or transform.
C6_OpenClosedMinimized ==
  [][/\ \A n \in KnownNames :
          (ClickOpen(n) /\ style[n].display = "none" /\ minimized[n])
          => /\ ~minimized'[n]
             /\ style'[n].display = ""
             /\ zCounter' > zCounter /\ zIndex'[n] = zCounter'
             /\ n \in rafQueue'
     /\ AnimationFrame => /\ rafQueue' = {}
                          /\ \A w \in rafQueue : SixCleared(style'[w])]_vars

\* A closed, minimized window has just been opened.
C6_Witness ==
  /\ last.op = "openmin"
  /\ ~minimized[last.w] /\ style[last.w].display = "" /\ zIndex[last.w] = zCounter
  /\ last.w \in rafQueue

\* ------------------------------------------------------------- C7

\* C7: close only forces the window's display to none: stacking order, counter,
\* inline position, fullscreen marker, snapshot and drag sessions are unchanged.
C7_CloseOnlyHides ==
  [][\A n \in KnownNames :
       ClickClose(n)
       => /\ style' = [style EXCEPT ![n].display = "none"]
          /\ UNCHANGED <<zCounter, zIndex, minimized, fullscreen, snapshot, flags,
                         listeners, drag, docMove, docUp, rafQueue, focused>>]_vars

\* A closed window that keeps its stacking order, its fullscreen geometry and
\* snapshot and its running drag.
C7_Witness ==
  \E w \in env.wins :
    /\ style[w].display = "none"
    /\ zIndex[w] > 0
    /\ fullscreen[w] /\ snapshot[w].saved /\ style[w].position = "fixed"
    /\ w \in docMove /\ w \in docUp

\* ------------------------------------------------------------- C8

\* C8 as stated: a non-primary press on a handle changes no state of the window.
C8_SecondaryPressIgnored ==
  [][\A w \in AllWindows : SecondaryPress(w) => UNCHANGED dom]_vars

\* C8 as amended: a non-primary press on a handle starts no drag session, attaches
\* no listener and leaves the window's position alone, but the window's own
\* mousedown listener raises the window once.
C8_SecondaryPressOnlyRaises ==
  [][\A w \in AllWindows :
       SecondaryPress(w)
       => /\ zCounter' = zCounter + 1
          /\ zIndex' = [zIndex EXCEPT ![w] = zCounter + 1]
          /\ UNCHANGED <<style, minimized, fullscreen, snapshot, flags, listeners,
                         drag, docMove, docUp, rafQueue, focused>>]_vars

\* A secondary-button press on a handle has just been handled.
C8_Witness ==
  /\ last.op = "auxdown"
  /\ zIndex[last.w] = zCounter
  /\ last.w \notin docMove

\* ------------------------------------------------------------- C9

\* C9: a window's document-level move and release listeners are attached by a
\* primary press on its handle and detached by the next release, which leaves none
\* attached; no other operation attaches or detaches them.
C9_ListenersScopedToDrag ==
  /\ [](docMove = docUp)
  /\ [][/\ \A w \in AllWindows :
             PrimaryPress(w) => (docMove' = docMove \cup {w} /\ docUp' = docUp \cup {w})
        /\ MouseUp => (docMove' = {} /\ docUp' = {})
        /\ (docMove' # docMove \/ docUp' # docUp)
             => (MouseUp \/ \E w \in AllWindows : PrimaryPress(w))]_vars

\* After a press and its release: the closure holds the press, no listener is left.
C9_Witness ==
  /\ docMove = {} /\ docUp = {}
  /\ \E w \in env.wins : drag[w] # NoDrag /\ drag[w].initialMouseX = 1

\* ------------------------------------------------------------- C10

ChromeWheel(dy) == Wheel("chrome", dy, TRUE) /\ env.content

\* C10 as stated: a wheel event on the window outside both panes changes the
\* content pane's scroll position by exactly the event's vertical delta.
C10_WheelAddsExactDelta ==
  [][\A dy \in Deltas : ChromeWheel(dy) => contentScroll' = contentScroll + dy]_vars

\* C10 as amended: such an event sets the content pane's scroll position to the
\* old position plus the event's vertical delta, limited to the pane's scroll
\* range (so it changes by exactly the delta when the sum lies in the range),
\* with the default scroll suppressed and propagation stopped: the page does not
\* scroll.
C10_WheelRoutedToContent ==
  [][\A dy \in Deltas :
       ChromeWheel(dy)
       => /\ contentScroll' = SetScrollTop(contentScroll + dy)
          /\ (contentScroll + dy \in 0..MaxScroll => contentScroll' = contentScroll + dy)
          /\ wheel'.defaultPrevented /\ wheel'.stopped
          /\ pageScroll' = pageScroll]_vars

\* A wheel event outside both panes was routed: the content pane has scrolled,
\* the page has not.
C10_Witness ==
  /\ wheel.target = "chrome" /\ wheel.defaultPrevented /\ wheel.stopped
  /\ wheel.deltaY = 2 /\ contentScroll = 2
  /\ pageScroll = env.scroll

\* ------------------------------------------------------------- C11

PaneWheel(t, dy) == t \in {"content", "list"} /\ \E a \in BOOLEAN : Wheel(t, dy, a)

\* C11: a wheel event whose target is inside the content pane or the list pane is
\* not redirected: its default action is not suppressed, the window's listener
\* never runs (so the router adds nothing to the content pane's position: a list
\* pane event leaves it alone, a content pane event moves it by the pane's own
\* default scroll only), and propagation is stopped at the pane, so the event
\* reaches neither the window's listener nor the page.
C11_PaneWheelNotRedirected ==
  [][\A t \in WheelTargets, dy \in Deltas :
       PaneWheel(t, dy)
       => /\ ~wheel'.defaultPrevented
          /\ wheel'.stopped
          /\ ~wheel'.atWindow
          /\ t = "list" => contentScroll' = contentScroll
          /\ t = "content" =>
                contentScroll' = DefaultAction([ev |-> wheel', content |-> contentScroll,
                                                page |-> pageScroll.y], TRUE).content]_vars

\* A wheel event on the list pane went by: stopped at the pane, not prevented,
\* never seen by the window's listener, after the content pane had scrolled.
C11_Witness ==
  /\ wheel.target = "list" /\ wheel.deltaY = 1
  /\ wheel.stopped /\ ~wheel.defaultPrevented /\ ~wheel.atWindow
  /\ contentScroll = 2

\* ------------------------------------------------------------- C12

\* C12: entering fullscreen sets the window to fixed positioning, top to the
\* resolved top offset, left to the resolved side margin, the transform to none,
\* width to max(260, viewport width - 2 * side) and height to
\* max(160, viewport height - (top + bottom)), the lengths counted by their
\* leading number, so that in every viewport width is at least 260 and height at
\* least 160, and raises the window to the front.
C12_FullscreenGeometry ==
  [][\A w \in AllWindows :
       Enters(w)
       => LET top == PxOrZero(TopOffsetVar(w))
              side == PxOrZero(SideMarginVar(w))
              bottom == PxOrZero(BottomMarginVar(w))
              s == style'[w]
          IN /\ s.position = "fixed"
             /\ s.top = TopOffsetVar(w)
             /\ s.left = SideMarginVar(w)
             /\ s.transform = "none"
             /\ s.width = Px(IF env.vw - 2 * side > 260 THEN env.vw - 2 * side ELSE 260)
             /\ s.height = Px(IF env.vh - (top + bottom) > 160
                              THEN env.vh - (top + bottom) ELSE 160)
             /\ s.width.n >= 260 /\ s.height.n >= 160
             /\ zCounter' > zCounter
             /\ zIndex'[w] = zCounter']_vars

\* A window gone fullscreen in an empty viewport: it has the floor size at the
\* resolved offsets.
C12_Witness ==
  \E w \in env.wins :
    /\ env.vw = 0 /\ env.vh = 0
    /\ fullscreen[w] /\ snapshot[w].saved
    /\ style[w].position = "fixed" /\ style[w].top = Px(48) /\ style[w].left = Px(24)
    /\ style[w].width = Px(260) /\ style[w].height = Px(160)
    /\ zIndex[w] = zCounter

\* ------------------------------------------------------------- C13

\* C13: every operation is a no-op on a missing element: bringToFront,
\* makeDraggable, openWindow, closeWindow and wireWindow called with an absent
\* window, wireOpenClose for a name without a window or with absent triggers, and
\* the scroll routing with an absent content pane leave the shared counter and
\* every window's state (stacking order, style, classes, snapshot, wiring flags,
\* listeners, drag sessions, frame requests, focus) as they were; the routing
\* then neither prevents nor stops the event nor moves the content pane.
C13_MissingElementNoOp ==
  [][/\ \A fn \in MissingFns, n \in AllWindows :
          CallOnMissing(fn, n) => UNCHANGED <<dom, contentScroll, pageScroll, wheel>>
     /\ \A dy \in Deltas :
          (~env.content /\ Wheel("chrome", dy, TRUE))
          => /\ UNCHANGED <<dom, contentScroll>>
             /\ ~wheel'.defaultPrevented /\ ~wheel'.stopped]_vars

\* wireOpenClose has just been called for a window that is there, wired and
\* being dragged, but has neither trigger.
C13_Witness ==
  /\ last.op = "missing"
  /\ last.w \in env.wins
  /\ last.w \in docMove
  /\ zCounter > ZStart + 1

\* ------------------------------------------------------------- C14

\* C14: at most one drag session is active per window: each window has one
\* onMouseDown closure, a second primary press on the handle of a window whose
\* release was lost leaves document's move and release listeners as they are
\* (one pair for the window) and restarts the window's one session at the new
\* press, and a move places each window under drag once, at its session's start
\* plus the pointer's displacement, and no other window.
C14_OneSessionPerWindow ==
  /\ [](\A w \in env.wins : listeners[w].handleDown = 1)
  /\ [][/\ \A w \in AllWindows, p \in Points :
             (w \in docMove /\ MouseDown(w, TRUE, [button |-> 0, x |-> p.x, y |-> p.y]))
             => /\ docMove' = docMove /\ docUp' = docUp
                /\ drag' = [drag EXCEPT ![w] =
                             [startX |-> OffsetLeft(style'[w]), startY |-> OffsetTop(style'[w]),
                              initialMouseX |-> p.x, initialMouseY |-> p.y]]
        /\ \A p \in Points :
             MouseMove([button |-> 0, x |-> p.x, y |-> p.y])
             => \A w \in AllWindows :
                  style'[w] =
                    IF w \in docMove
                    THEN [style[w] EXCEPT
                            !.left = Px(drag[w].startX + (p.x - drag[w].initialMouseX)),
                            !.top = Px(drag[w].startY + (p.y - drag[w].initialMouseY))]
                    ELSE style[w]]_vars

\* A window pressed, moved by (1, 2) and pressed again there without a release:
\* one pair of listeners, the session restarted at the moved position.
C14_Witness ==
  /\ last.op = "repress"
  /\ docMove = {last.w} /\ docUp = {last.w}
  /\ drag[last.w].initialMouseX = 1 /\ drag[last.w].initialMouseY = 2
  /\ style[last.w].left = Px(drag[last.w].startX)
  /\ listeners[last.w].handleDown = 1

\* ------------------------------------------------------------- C15

\* The fallback chain as stated, on the stylesheet's values: the window-specific
\* variable (blog and tutorial only) when it is set, else the global variable when
\* it is set, else the default; a variable is set when its value is not blank.
IsSet(t) == t # Empty /\ t.u # " "
Chain(w, suffix, default) ==
  LET specific == env.vars["--" \o w \o "-window-" \o suffix]
      global == env.vars["--window-" \o suffix]
  IN IF w \in {"blog", "tutorial"} /\ IsSet(specific) THEN specific
     ELSE IF IsSet(global) THEN global
     ELSE Px(default)
\* The variables the chain of w may read.
Applicable(w, suffix) ==
  {env.vars["--window-" \o suffix]} \cup
  (IF w \in {"blog", "tutorial"} THEN {env.vars["--" \o w \o "-window-" \o suffix]} ELSE {})
IsNumeric(t) == t.u \in {"px", "rem"}

\* The geometry of a fullscreen window from the three resolved parameters.
LaidOut(s, top, side, bottom) ==
  LET n(t) == IF IsNumeric(t) THEN t.n ELSE 0
      fit(a, floor) == IF a > floor THEN a ELSE floor
  IN /\ s.top = top
     /\ s.left = side
     /\ s.width = Px(fit(env.vw - 2 * n(side), 260))
     /\ s.height = Px(fit(env.vh - (n(top) + n(bottom)), 160))

\* C15 as stated: each parameter is resolved by the fallback chain, and the
\* literal default (100px top, 16px side and bottom) is what is used whenever no
\* applicable variable yields a numeric value.
C15_DefaultWhenNotNumeric ==
  [][\A w \in AllWindows :
       Enters(w)
       => LET used(suffix, default) ==
                IF \A t \in Applicable(w, suffix) : ~IsNumeric(t)
                THEN Px(default) ELSE Chain(w, suffix, default)
          IN LaidOut(style'[w], used("top-offset", 100), used("side-margin", 16),
                     used("bottom-margin", 16))]_vars

\* C15 as amended: each parameter is the first non-blank value of the chain
\* (window-specific variable for blog and tutorial, then the global variable),
\* whatever that value is, and the literal default only when every applicable
\* variable is unset or blank; a value that is not a number is used as it is for
\* top and left and counts as 0 in the size.
C15_FallbackChain ==
  [][\A w \in AllWindows :
       Enters(w)
       => LaidOut(style'[w], Chain(w, "top-offset", 100), Chain(w, "side-margin", 16),
                  Chain(w, "bottom-margin", 16))]_vars

\* The blog window fullscreen where its own variables hold a keyword and the
\* global ones a pixel length: the keyword is used, and counts as 0 in the size.
C15_Witness ==
  /\ env.wins = {"blog"}
  /\ env.vars["--blog-window-top-offset"] = Txt("auto", 0)
  /\ env.vars["--window-top-offset"] = Px(40)
  /\ env.vw = 1000 /\ env.vh = 700
  /\ fullscreen["blog"] /\ snapshot["blog"].saved
  /\ style["blog"].top = Txt("auto", 0)
  /\ style["blog"].width = Px(1000) /\ style["blog"].height = Px(700)

\* ------------------------------------------------------------- C16

\* The page toggles only the minimized class of w in this step.
TogglesMinimizedOnly(w) ==
  \E batch \in Batches :
    /\ \A i \in DOMAIN batch : batch[i] = [w |-> w, cls |-> "window-minimized"]
    /\ PageTogglesClasses(batch)

\* C16: when the adapter processes a class mutation on a window without the
\* fullscreen marker and without a snapshot it changes nothing: its callback on
\* such a window leaves the whole state as it is, so a step that toggles only the
\* minimized class leaves the eight geometry properties, every stacking order
\* and the counter unchanged, and a click on an open trigger changes them by
\* openWindow's own raise only.
C16_AdapterIdleWithoutSnapshot ==
  /\ [](\A w \in env.wins :
          (~fullscreen[w] /\ ~snapshot[w].saved) => OnMutation(Cur, w) = Cur)
  /\ [][\A w \in AllWindows :
          (~fullscreen[w] /\ ~snapshot[w].saved)
          => /\ TogglesMinimizedOnly(w)
                  => /\ Geom(style'[w]) = Geom(style[w])
                     /\ UNCHANGED <<zCounter, zIndex, snapshot>>
             /\ ClickOpen(w)
                  => /\ Geom(style'[w]) = Geom(style[w])
                     /\ zCounter' = zCounter + 1
                     /\ zIndex' = [zIndex EXCEPT ![w] = zCounter + 1]
                     /\ UNCHANGED snapshot]_vars

\* The window with an inline top and left, minimized by a class toggle that the
\* adapter processed: it has no marker and no snapshot and keeps its geometry and
\* its stacking order from load.
C16_Witness ==
  /\ env = PageDesk
  /\ minimized["blog"] /\ ~fullscreen["blog"] /\ ~snapshot["blog"].saved
  /\ Geom(style["blog"]) = Geom(PlacedStyle)
  /\ zIndex["blog"] = 0 /\ zCounter = ZStart + 1

\* ------------------------------------------------------------- C17

\* C17: for every observed window, whenever no class-mutation record is pending
\* (between tasks: the observer's callback ends every task that changed a class),
\* a snapshot exists if and only if the window carries the fullscreen marker,
\* through any marker toggles, singly or several in a batch, opens, closes and
\* drags.
C17_SnapshotIffFullscreen ==
  \A w \in env.wins : snapshot[w].saved <=> fullscreen[w]

\* The window that was fullscreen at load after an exit, a press that gave it an
\* explicit top and left, and a new entry during the drag: the snapshot holds
\* the geometry the press made.
C17_Witness ==
  /\ env = PageSolo
  /\ fullscreen["blog"] /\ snapshot["blog"].saved
  /\ snapshot["blog"].top.u = "px" /\ snapshot["blog"].position = "absolute"
  /\ "blog" \in docMove

\* ------------------------------------------------------------- C18

\* The frame callback of open runs in this step, right after a primary press on
\* the handle of w that came between the open call and this frame.
FrameAfterPress(w) == last = [op |-> "framepress", w |-> w] /\ AnimationFrame

\* C18: the frame callback of open does not interfere with a drag: when a primary
\* press has started a drag on a window between open and its frame callback, the
\* callback leaves the window the position, top and left the press established.
C18_FrameKeepsDrag ==
  [][\A w \in AllWindows :
       FrameAfterPress(w)
       => /\ style'[w].position = style[w].position
          /\ style'[w].top = style[w].top
          /\ style'[w].left = style[w].left]_vars

\* ------------------------------------------------------------- C19

\* C19: a window that carries the fullscreen marker keeps its fullscreen geometry
\* across open: whether open was called on it with the marker present or it
\* entered fullscreen between the open call and the frame callback, the frame
\* callback leaves it, marker present, with its fixed positioning and its top
\* and left offsets.
C19_FullscreenSurvivesOpen ==
  [][\A w \in AllWindows :
       (AnimationFrame /\ w \in rafQueue /\ fullscreen[w])
       => /\ fullscreen'[w]
          /\ style'[w].position = "fixed"
          /\ style'[w].top = TopOffsetVar(w)
          /\ style'[w].left = SideMarginVar(w)]_vars

====
